---------------------------- MODULE Spec2Model ----------------------------
(***************************************************************************)
(* StudyGen: a browser study aid.  A local Ollama server turns pasted or   *)
(* uploaded text into notes, flashcards and quiz questions; the results    *)
(* live in React component state and in localStorage.                      *)
(*                                                                         *)
(* The module models                                                       *)
(*   - the AI service (src/types/index.ts): callOllama, generateNotes,     *)
(*     generateFlashcards, generateMCQs, over completions written as       *)
(*     sequences of lexemes;                                               *)
(*   - the surfaces (src/components, src/app, src/unnamed) as state        *)
(*     machines over component state, localStorage and requests in flight. *)
(***************************************************************************)
EXTENDS Integers, Sequences, FiniteSets, TLC

(***************************************************************************)
(* Bounds of the model.                                                    *)
(***************************************************************************)
MaxLen == 5          \* longest completion, in lexemes

MaxClock == 3        \* readings of Date.now() in one behaviour

MaxReqs == 2         \* generation requests in flight at once

MaxFiles == 1        \* files in the upload list

MaxNotes == 2        \* notes generated in one visit

MaxQuizClock == 4    \* readings of Date.now(), those of finishQuiz included

MaxTodoClock == 4    \* readings of Date.now(), those of addTodo included

MaxEdits == 3        \* changes of the input text of TextInput in one visit

MaxChoice == 1       \* highest option index the user picks in a quiz

MaxNoteLen == 2      \* longest source content and reply of a direct
                     \* generateNotes call, in lexemes

(***************************************************************************)
(* Completions.  A completion is a sequence of lexemes:                    *)
(*   "["  "]"  ","   the JSON punctuation the parsers look for             *)
(*   "nl"            a line break                                          *)
(*   "sp"            a blank                                               *)
(*   "w"             a word of letters (free text)                         *)
(*   "1."            an ordinal prefix, digits followed by a dot           *)
(*   "C"             the object literal {"front":"w","back":"w"}           *)
(*   "Q"             the object literal {"question":"w","options":[4       *)
(*                   strings],"correctAnswer":0,"explanation":"w"}         *)
(***************************************************************************)
Lexemes == {"[", "]", ",", "nl", "sp", "w", "1.", "C", "Q"}

SeqsUpTo(S, n) == UNION {[1..k -> S] : k \in 0..n}

Completions == SeqsUpTo(Lexemes, MaxLen)

IsSpace(c) == c \in {"sp", "nl"}

(***************************************************************************)
(* JSON values, all records with a tag t so that any two compare.          *)
(***************************************************************************)
CardValue == [t |-> "card", front |-> <<"w">>, back |-> <<"w">>]

QuestionValue ==
    [t |-> "question", question |-> <<"w">>, options |-> 4, correctAnswer |-> 0]

ArrayValue(items) == [t |-> "array", items |-> items]

NullValue == [t |-> "null"]

(***************************************************************************)
(* String helpers over lexeme sequences.                                   *)
(***************************************************************************)
Positions(s, c) == {i \in 1..Len(s) : s[i] = c}

Min(S) == CHOOSE x \in S : \A y \in S : x <= y

Max(S) == CHOOSE x \in S : \A y \in S : x >= y

\* String.prototype.trim: drops the blanks at both ends.
Trim(s) ==
    LET keep == {i \in 1..Len(s) : ~IsSpace(s[i])}
    IN  IF keep = {} THEN <<>> ELSE SubSeq(s, Min(keep), Max(keep))

\* String.prototype.split('\n'): the pieces between line breaks, empty ones too.
RECURSIVE Split(_)
Split(s) ==
    LET nls == Positions(s, "nl")
    IN  IF nls = {} THEN <<s>>
        ELSE <<SubSeq(s, 1, Min(nls) - 1)>> \o Split(SubSeq(s, Min(nls) + 1, Len(s)))

\* Array.prototype.filter
RECURSIVE SelectNonBlank(_)
SelectNonBlank(lines) ==
    IF lines = <<>> THEN <<>>
    ELSE (IF Trim(Head(lines)) # <<>> THEN <<Head(lines)>> ELSE <<>>)
         \o SelectNonBlank(Tail(lines))

\* line.replace(/^\d+\.\s*/, ''): an ordinal at the very start goes, with the
\* blanks that follow it.
RECURSIVE DropSpaces(_)
DropSpaces(s) ==
    IF s # <<>> /\ IsSpace(Head(s)) THEN DropSpaces(Tail(s)) ELSE s

StripOrdinal(s) ==
    IF s # <<>> /\ Head(s) = "1." THEN DropSpaces(Tail(s)) ELSE s

\* response.match(/\[[\s\S]*\]/): greedy, from the first "[" to the last "]"
\* after it; ok = FALSE is the null of a failed match.
MatchBrackets(s) ==
    LET opens  == Positions(s, "[")
        closes == Positions(s, "]")
    IN  IF opens # {} /\ closes # {} /\ Max(closes) > Min(opens)
        THEN [ok |-> TRUE, text |-> SubSeq(s, Min(opens), Max(closes))]
        ELSE [ok |-> FALSE, text |-> <<>>]

(***************************************************************************)
(* JSON.parse over lexemes: blanks between tokens are skipped, "C" and "Q" *)
(* are object literals, "[" .. "]" an array of comma-separated values,     *)
(* anything else ("w", "1.", a stray "," or "]") is a SyntaxError.         *)
(* A parse result is [ok, val, next]: next is the position after the value.*)
(***************************************************************************)
RECURSIVE SkipWs(_, _)
SkipWs(s, i) == IF i <= Len(s) /\ IsSpace(s[i]) THEN SkipWs(s, i + 1) ELSE i

ParseFail == [ok |-> FALSE, val |-> NullValue, next |-> 0]

RECURSIVE ParseValue(_, _)
RECURSIVE ParseElems(_, _, _)
ParseValue(s, i0) ==
    LET i == SkipWs(s, i0)
    IN  IF i > Len(s) THEN ParseFail
        ELSE IF s[i] = "C" THEN [ok |-> TRUE, val |-> CardValue, next |-> i + 1]
        ELSE IF s[i] = "Q" THEN [ok |-> TRUE, val |-> QuestionValue, next |-> i + 1]
        ELSE IF s[i] = "["
             THEN LET j == SkipWs(s, i + 1)
                  IN  IF j <= Len(s) /\ s[j] = "]"
                      THEN [ok |-> TRUE, val |-> ArrayValue(<<>>), next |-> j + 1]
                      ELSE ParseElems(s, j, <<>>)
        ELSE ParseFail

\* the elements of an array after "[", one value then "," or "]"
ParseElems(s, i, acc) ==
    LET v == ParseValue(s, i)
    IN  IF ~v.ok THEN ParseFail
        ELSE LET j == SkipWs(s, v.next)
             IN  IF j > Len(s) THEN ParseFail
                 ELSE IF s[j] = "]"
                      THEN [ok |-> TRUE, val |-> ArrayValue(Append(acc, v.val)),
                            next |-> j + 1]
                 ELSE IF s[j] = ","
                      THEN ParseElems(s, j + 1, Append(acc, v.val))
                 ELSE ParseFail

\* JSON.parse(text): [threw, val]
JSONParse(s) ==
    LET v == ParseValue(s, 1)
    IN  IF v.ok /\ SkipWs(s, v.next) > Len(s)
        THEN [threw |-> FALSE, val |-> v.val]
        ELSE [threw |-> TRUE, val |-> NullValue]

(***************************************************************************)
(* The model gateway.  What the Ollama server does with one request:       *)
(*   "unreachable"   fetch rejects                                         *)
(*   "status"        a reply whose status is not 2xx                       *)
(*   "undecodable"   a 2xx reply whose body response.json() rejects        *)
(*   "ok"            a 2xx JSON reply; hasResponse says whether it has a   *)
(*                   response field, response is its text                  *)
(***************************************************************************)
FailureKinds == {"unreachable", "status", "undecodable"}

GatewayFailures ==
    {[kind |-> k, hasResponse |-> FALSE, response |-> <<>>] : k \in FailureKinds}

GatewayReply(text) == [kind |-> "ok", hasResponse |-> TRUE, response |-> text]

GatewayOutcomes ==
    GatewayFailures
      \cup {[kind |-> "ok", hasResponse |-> FALSE, response |-> <<>>]}
      \cup {GatewayReply(text) : text \in Completions}

\* An error is the sequence of the parts of its message.
NoError == <<>>

ConnectError ==
    <<"Failed to connect to Ollama.", "Make sure Ollama is running on",
      "localhost:11434">>

\* what is thrown inside the try block of callOllama: fetch rejects with a
\* TypeError, the status check throws with the status, response.json()
\* rejects with a SyntaxError
InnerError(kind) ==
    CASE kind = "unreachable" -> <<"TypeError:", "fetch failed">>
      [] kind = "status" -> <<"Ollama API error:", "status">>
      [] kind = "undecodable" -> <<"SyntaxError:", "Unexpected token">>

\* the try block of callOllama; a reply without a response field returns
\* undefined (def = FALSE)
callOllamaTry(g) ==
    IF g.kind \in FailureKinds
    THEN [threw |-> TRUE, def |-> FALSE, text |-> <<>>, error |-> InnerError(g.kind)]
    ELSE [threw |-> FALSE, def |-> g.hasResponse, text |-> g.response,
          error |-> NoError]

\* callOllama with the catch block left out
callOllamaNoCatch(g) == callOllamaTry(g)

\* callOllama: every failure inside the try block is rethrown as the one
\* connection error
callOllama(g) ==
    LET body == callOllamaTry(g)
    IN  IF body.threw THEN [body EXCEPT !.error = ConnectError] ELSE body

(***************************************************************************)
(* generateFlashcards                                                      *)
(***************************************************************************)
FlashcardLimit == 5

Card(front, back) == [t |-> "card", front |-> front, back |-> back]

FallbackFlashcards ==
    << Card(<<"What is the main topic of the provided content?">>,
            <<"The content covers key concepts">>),
       Card(<<"What are the key takeaways from this material?">>,
            <<"The material provides important insights">>) >>

\* the for loop of the manual fallback: lines two by two, a last line
\* without a partner is skipped
RECURSIVE PairLines(_)
PairLines(lines) ==
    IF Len(lines) < 2 THEN <<>>
    ELSE <<Card(Trim(StripOrdinal(lines[1])), Trim(lines[2]))>>
         \o PairLines(SubSeq(lines, 3, Len(lines)))

\* Array.prototype.slice(0, n)
Slice(s, n) == SubSeq(s, 1, IF Len(s) < n THEN Len(s) ELSE n)

Thrown == [threw |-> TRUE, value |-> <<>>]

Returned(v) == [threw |-> FALSE, value |-> v]

\* the try block of generateFlashcards
FlashcardsTry(g) ==
    LET r == callOllama(g)
        m == MatchBrackets(r.text)
        p == JSONParse(m.text)
    IN  IF r.threw THEN Thrown
        ELSE IF ~r.def THEN Thrown            \* undefined.match: TypeError
        ELSE IF m.ok
             THEN (IF p.threw THEN Thrown ELSE Returned(p.val.items))
        ELSE Returned(Slice(PairLines(SelectNonBlank(Split(r.text))),
                            FlashcardLimit))

\* generateFlashcards with the catch block left out
generateFlashcardsNoCatch(g) == FlashcardsTry(g)

generateFlashcards(g) ==
    LET body == FlashcardsTry(g)
    IN  IF body.threw THEN Returned(FallbackFlashcards) ELSE body

(***************************************************************************)
(* generateMCQs                                                            *)
(***************************************************************************)
Question(text, correct) ==
    [t |-> "question", question |-> <<text>>, options |-> 4,
     correctAnswer |-> correct]

\* the two questions returned when the completion has no bracketed part
UnmatchedMCQs ==
    << Question("Based on the provided content, what is the main focus?", 0),
       Question("What can be learned from studying this material?", 1) >>

\* the question returned from the catch block
FallbackMCQs ==
    << Question("What is the primary purpose of this study material?", 0) >>

MCQsTry(g) ==
    LET r == callOllama(g)
        m == MatchBrackets(r.text)
        p == JSONParse(m.text)
    IN  IF r.threw THEN Thrown
        ELSE IF ~r.def THEN Thrown
        ELSE IF m.ok
             THEN (IF p.threw THEN Thrown ELSE Returned(p.val.items))
        ELSE Returned(UnmatchedMCQs)

generateMCQs(g) ==
    LET body == MCQsTry(g)
    IN  IF body.threw THEN Returned(FallbackMCQs) ELSE body

(***************************************************************************)
(* State.                                                                  *)
(***************************************************************************)
VARIABLES
    gw,      \* the gateway's outcome for the transformer call under study
    ret      \* what the call gave its caller: [fn, threw, value]

genVars == <<gw, ret>>

VARIABLES
    page,             \* "closed" between visits, "open" while the page is loaded
    lsModel,          \* localStorage['selectedOllamaModel'], Absent when not set
    selectedModel,    \* OllamaStatus state
    isConnected,      \* OllamaStatus state: "null", "true" or "false"
    availableModels,  \* OllamaStatus state
    checking,         \* OllamaStatus state
    check,            \* the checkConnection call in flight: [stage, sel]
    sentModel         \* the model of callOllama's last request body

modelVars ==
    <<lsModel, selectedModel, isConnected, availableModels, checking, check,
      sentModel>>

VARIABLES
    activeTab,     \* Home state: the tab shown; only its component is mounted
    crashed,       \* a render threw: the React tree is gone until the next load
    ls,            \* localStorage, by collection key
    savedNotes,    \* NotesManager state
    flashcards,    \* FlashcardGenerator state
    questions,     \* QuizGenerator state
    quizResults,   \* QuizGenerator state
    todos,         \* TodoList state, one per instance: "sidebar" and "tab"
    console,       \* the messages written with console.error in this visit
    quiz           \* QuizGenerator state of the attempt: [quizStarted,
                   \* currentQuestionIndex, selectedAnswers, showResults]

storeVars ==
    <<activeTab, crashed, ls, savedNotes, flashcards, questions, quizResults,
      todos, console, quiz>>

VARIABLES
    now,             \* the next reading of Date.now()
    generatedNotes,  \* Home state: the notes generated in this visit
    noteMeta,        \* FileUpload state, null until its mount effect ran
    uploadedFiles,   \* FileUpload state: the number of files in the list
    filled,          \* per text surface: the input holds non-blank text
    processing,      \* per generation surface: the busy flag
    reqs,            \* generation requests in flight: [surface, live, meta]
    done,            \* how the last generation request ended
    preview          \* TextInput: the input text, the debounce timer, the
                     \* preview requests in flight, the preview shown

appVars ==
    <<now, generatedNotes, noteMeta, uploadedFiles, filled, processing, reqs,
      done, preview>>

vars == <<genVars, page, modelVars, storeVars, appVars>>

NoCall == [fn |-> "none", threw |-> FALSE, value |-> <<>>]

CallResult(fn, r) == [fn |-> fn, threw |-> r.threw, value |-> r.value]

GenIdle ==
    /\ gw = GatewayReply(<<>>)
    /\ ret = NoCall

(***************************************************************************)
(* localStorage and the collections kept in it.  The text under a key is   *)
(* absent, empty, not JSON ("garbage"), or the text of a JSON value.       *)
(* Component state holds JSON values as well: what JSON.parse returned is  *)
(* what setState stores, a sequence or not.                                *)
(***************************************************************************)
Keys == {"studyNotes", "flashcards", "mcQuestions", "quizResults", "todos"}

Tabs == {"upload", "text", "notes", "flashcards", "quiz", "todo"}

AbsentText == [t |-> "absent"]        \* getItem returns null

EmptyText == [t |-> "empty"]          \* the empty string

GarbageText == [t |-> "garbage"]      \* text JSON.parse rejects

ObjectValue == [t |-> "object"]       \* a JSON object, e.g. {}

EmptyArray == ArrayValue(<<>>)

\* if (saved): null and the empty string are falsy
Truthy(text) == text.t \notin {"absent", "empty"}

\* JSON.parse of a stored text
StorageParse(text) ==
    IF text.t \in {"garbage", "empty", "absent"}
    THEN [threw |-> TRUE, val |-> NullValue]
    ELSE [threw |-> FALSE, val |-> text]

\* JSON.stringify of one record: a Date becomes its ISO string
ToJSON(item) ==
    [k \in DOMAIN item |->
        IF k \in {"createdAt", "completedAt", "updatedAt"} THEN "string"
        ELSE item[k]]

\* JSON.stringify of a component state
Stringify(v) ==
    IF v.t = "array"
    THEN ArrayValue([i \in 1..Len(v.items) |-> ToJSON(v.items[i])])
    ELSE v

\* The load effect of a surface:
\*   const saved = localStorage.getItem(key);
\*   if (saved) { try { setState(JSON.parse(saved)) } catch { console.error } }
\* value is the state afterwards (useState([]) unless setState was called),
\* logged says whether the catch block wrote to the console, escaped whether
\* an error left the effect.
LoadResult(value, logged, escaped) ==
    [value |-> value, logged |-> logged, escaped |-> escaped]

\* the load effect without its try/catch
LoadEffectNoCatch(text) ==
    LET p == StorageParse(text)
    IN  IF ~Truthy(text) THEN LoadResult(EmptyArray, FALSE, FALSE)
        ELSE IF p.threw THEN LoadResult(EmptyArray, FALSE, TRUE)
        ELSE LoadResult(p.val, FALSE, FALSE)

LoadEffect(text) ==
    LET p == StorageParse(text)
    IN  IF ~Truthy(text) THEN LoadResult(EmptyArray, FALSE, FALSE)
        ELSE IF p.threw THEN LoadResult(EmptyArray, TRUE, FALSE)
        ELSE LoadResult(p.val, FALSE, FALSE)

Loaded(text) == LoadEffect(text).value

\* what the catch block of a load effect logs
LoadLog(text, message) == IF LoadEffect(text).logged THEN {message} ELSE {}

\* Whether a component's render throws on a state.  null has no length,
\* filter or iterator; an object has no filter and is not iterable, but
\* its .length is merely undefined.
RenderThrows(component, v) ==
    CASE component \in {"TodoList", "NotesManager"} -> v.t # "array"
      [] component \in {"FlashcardGenerator", "QuizGenerator"} -> v.t = "null"

\* The mount of a component with one collection, on the text under its key:
\* the first render (state []), the load effect, the save effect of the first
\* render (writes "[]"), then, the state being set, the next render and its
\* save effect.  A render that throws takes the tree down before that
\* second save.
MountCrashes(component, text) ==
    LoadEffect(text).escaped \/ RenderThrows(component, Loaded(text))

\* the save effect of the first render only
MountSavedFirstRender(component, text) == Stringify(EmptyArray)

MountSaved(component, text) ==
    IF MountCrashes(component, text) THEN Stringify(EmptyArray)
    ELSE Stringify(Loaded(text))

\* QuizGenerator loads two collections in one effect and renders both
QuizCrashes(qText, rText) ==
    \/ LoadEffect(qText).escaped \/ LoadEffect(rText).escaped
    \/ RenderThrows("QuizGenerator", Loaded(qText))
    \/ RenderThrows("QuizGenerator", Loaded(rText))

QuizSaved(qText, rText, own) ==
    IF QuizCrashes(qText, rText) THEN Stringify(EmptyArray)
    ELSE Stringify(Loaded(own))

\* NotesManager: allNotes = [...notes, ...savedNotes]; the save effect writes
\* allNotes.filter(note => !notes.includes(note)).  includes compares object
\* identity and no object of savedNotes (made by JSON.parse) is an object of
\* notes, so what is written is the part of allNotes after notes.
NotesToSave(notes, saved) ==
    LET allNotes == notes \o saved.items
    IN  ArrayValue(SubSeq(allNotes, Len(notes) + 1, Len(allNotes)))

(***************************************************************************)
(* The generation surfaces: FileUpload, TextInput, FlashcardGenerator and  *)
(* QuizGenerator, each on the tab of its name.  A handler that awaits the  *)
(* AI service is two steps: the click puts a request in flight, and the    *)
(* rest of the handler runs when the gateway has answered.  A request      *)
(* whose component has unmounted since (live = FALSE) still runs to its    *)
(* end: its setState calls do nothing, but Home's callback and toast()     *)
(* act as ever.                                                            *)
(***************************************************************************)
Surfaces == {"upload", "text", "flashcards", "quiz"}

\* Date.now().toString(); every reading of the clock is later than the last
TimeId(ms) == [t |-> "time", ms |-> ms]

\* Date.now().toString() + Math.random().toString(36), once per item: k
\* stands for the draw, and the draws of one call differ
RandomId(ms, k) == [t |-> "time+random", ms |-> ms, k |-> k]

\* noteMeta?.id || "temp-id"
NoteMetaId(meta) == IF meta.t = "null" THEN [t |-> "temp-id"] ELSE meta.id

\* what the gateway does with the request of a surface
SurfaceOutcomes ==
    {g \in GatewayFailures : g.kind \in {"unreachable", "status"}}
      \cup {GatewayReply(<<"w">>), GatewayReply(<<"[", "w", "]">>),
            GatewayReply(<<"[", "C", "]">>)}

Styles == {"bullet", "detailed", "condensed"}

\* the prompt of generateNotes: the instructions of the style, the content
\* under its heading, the closing request
NotesPrompt(content, style) ==
    << CASE style = "bullet" -> "Create concise bullet-point study notes ..."
         [] style = "detailed" -> "Create comprehensive, detailed study notes ..."
         [] style = "condensed" -> "Create an ultra-condensed summary ...",
       "nl", "nl", "Content to process:", "nl" >>
      \o content
      \o <<"nl", "nl",
           "Please generate well-structured study notes in the requested style:">>

\* generateNotes with a catch block that returns a placeholder text
generateNotesWithPlaceholder(g) ==
    LET r == callOllama(g)
    IN  IF r.threw
        THEN [threw |-> FALSE, def |-> TRUE, text |-> <<"w">>, error |-> NoError]
        ELSE r

\* generateNotes returns what callOllama returns and has no catch
generateNotes(g) == callOllama(g)

\* How a generation request ended: the gateway outcome, whether the request
\* failed, the toast shown ("none", "default" or "destructive") and whether
\* a placeholder result was returned in place of a generated one.
Done(surface, kind, failed, toast, placeholder) ==
    [surface |-> surface, kind |-> kind, failed |-> failed, toast |-> toast,
     placeholder |-> placeholder]

NoDone == Done("none", "ok", FALSE, "none", FALSE)

\* TextInput as first rendered.  inputText is [v, long]: v counts the
\* changes of the text (0 is the empty text) and long says whether it has
\* 50 characters or more; timer is the v of the text whose timeout is
\* pending, or 0; requests are the generateNotes calls of the preview
\* effect in flight, each for the text of one v; previewContent is 0 for
\* '' and v for the preview computed from the text of that v.
NoPreview ==
    [inputText |-> [v |-> 0, long |-> FALSE], timer |-> 0, requests |-> {},
     previewContent |-> 0]

AppIdle ==
    /\ preview = NoPreview
    /\ now = 1
    /\ generatedNotes = <<>>
    /\ noteMeta = NullValue
    /\ uploadedFiles = 0
    /\ filled = [s \in Surfaces \ {"upload"} |-> FALSE]
    /\ processing = [s \in Surfaces |-> FALSE]
    /\ reqs = <<>>
    /\ done = NoDone

\* The surfaces when tab comes to be shown: every surface state is the
\* initial one, the requests in flight have lost their component, and the
\* mount effect of FileUpload sets noteMeta from the clock.
SurfacesMount(tab) ==
    /\ tab = "upload" => now < MaxClock
    /\ processing' = [s \in Surfaces |-> FALSE]
    /\ filled' = [s \in Surfaces \ {"upload"} |-> FALSE]
    /\ uploadedFiles' = 0
    /\ reqs' = [i \in 1..Len(reqs) |-> [reqs[i] EXCEPT !.live = FALSE]]
    /\ preview' = [NoPreview EXCEPT !.requests =
                      {[r EXCEPT !.live = FALSE] : r \in preview.requests}]
    /\ IF tab = "upload"
       THEN noteMeta' = [t |-> "meta", id |-> TimeId(now)] /\ now' = now + 1
       ELSE noteMeta' = NullValue /\ UNCHANGED now
    /\ UNCHANGED <<generatedNotes, done>>

\* selectedAnswers is a function from question ids to option indexes; order
\* lists its keys as Object.values enumerates them, in the order in which
\* they were first set
NoQuiz ==
    [quizStarted |-> FALSE, currentQuestionIndex |-> 0, selectedAnswers |-> <<>>,
     order |-> <<>>, showResults |-> FALSE]

\* Whether the render of QuizGenerator throws on an attempt.  The quiz card
\* reads currentQuestion.options.map; the review reads
\* question.options[selectedAnswer] of an answered question and
\* question.options[question.correctAnswer] of one not flagged correct.
QuizRenderThrows(qs, q) ==
    LET n == Len(qs.items)
        cur == qs.items[q.currentQuestionIndex + 1]
        answered(x) == "id" \in DOMAIN x /\ x.id \in DOMAIN q.selectedAnswers
        isCorrect(x) ==
            IF answered(x)
            THEN "correctAnswer" \in DOMAIN x
                    /\ q.selectedAnswers[x.id] = x.correctAnswer
            ELSE "correctAnswer" \notin DOMAIN x
    IN  \/ qs.t # "array"
        \/ /\ q.quizStarted /\ ~q.showResults /\ q.currentQuestionIndex < n
           /\ "options" \notin DOMAIN cur
        \/ /\ q.showResults
           /\ \E i \in 1..n :
                 /\ "options" \notin DOMAIN qs.items[i]
                 /\ answered(qs.items[i]) \/ ~isCorrect(qs.items[i])

StoreIdle ==
    /\ quiz = NoQuiz
    /\ activeTab = "upload"
    /\ crashed = FALSE
    /\ ls = [k \in Keys |-> AbsentText]
    /\ savedNotes = EmptyArray
    /\ flashcards = EmptyArray
    /\ questions = EmptyArray
    /\ quizResults = EmptyArray
    /\ todos = [i \in {"sidebar", "tab"} |-> EmptyArray]
    /\ console = {}

\* The components of a tab mount when it is shown and unmount when it is
\* left (TabsContent renders the active tab only); the state of an unmounted
\* component is written as its initial state.  The sidebar TodoList stays
\* mounted.  tab is the tab shown after the step.
ShowTab(tab, sidebar) ==
    LET crash ==
            CASE tab = "notes" -> MountCrashes("NotesManager", ls["studyNotes"])
              [] tab = "flashcards" ->
                     MountCrashes("FlashcardGenerator", ls["flashcards"])
              [] tab = "quiz" -> QuizCrashes(ls["mcQuestions"], ls["quizResults"])
              [] tab = "todo" -> MountCrashes("TodoList", ls["todos"])
              [] OTHER -> FALSE
    IN  /\ activeTab' = tab
        /\ crashed' = crash
        /\ savedNotes' = IF tab = "notes" THEN Loaded(ls["studyNotes"]) ELSE EmptyArray
        /\ flashcards' =
               IF tab = "flashcards" THEN Loaded(ls["flashcards"]) ELSE EmptyArray
        /\ questions' = IF tab = "quiz" THEN Loaded(ls["mcQuestions"]) ELSE EmptyArray
        /\ quizResults' = IF tab = "quiz" THEN Loaded(ls["quizResults"]) ELSE EmptyArray
        /\ todos' = [i \in {"sidebar", "tab"} |->
                        IF i = "sidebar" THEN sidebar
                        ELSE IF tab = "todo" THEN Loaded(ls["todos"]) ELSE EmptyArray]
        /\ ls' = CASE tab = "notes" ->
                        [ls EXCEPT !["studyNotes"] =
                            IF MountCrashes("NotesManager", ls["studyNotes"])
                            THEN Stringify(EmptyArray)
                            ELSE Stringify(NotesToSave(generatedNotes,
                                               Loaded(ls["studyNotes"])))]
                   [] tab = "flashcards" ->
                        [ls EXCEPT !["flashcards"] =
                            MountSaved("FlashcardGenerator", ls["flashcards"])]
                   [] tab = "quiz" ->
                        [ls EXCEPT
                           !["mcQuestions"] =
                               QuizSaved(ls["mcQuestions"], ls["quizResults"],
                                         ls["mcQuestions"]),
                           !["quizResults"] =
                               QuizSaved(ls["mcQuestions"], ls["quizResults"],
                                         ls["quizResults"])]
                   [] tab = "todo" ->
                        [ls EXCEPT !["todos"] = MountSaved("TodoList", ls["todos"])]
                   [] OTHER -> ls
        /\ console' = console \cup
               CASE tab = "notes" ->
                        LoadLog(ls["studyNotes"], "Error loading saved notes:")
                 [] tab = "flashcards" ->
                        LoadLog(ls["flashcards"], "Error loading flashcards:")
                 [] tab = "quiz" ->
                        LoadLog(ls["mcQuestions"], "Error loading questions:")
                          \cup LoadLog(ls["quizResults"], "Error loading quiz results:")
                 [] tab = "todo" -> LoadLog(ls["todos"], "Error loading todos:")
                 [] OTHER -> {}
        /\ quiz' = NoQuiz
        /\ SurfacesMount(tab)

\* onValueChange of the Tabs
SwitchTab ==
    /\ page = "open"
    /\ ~crashed
    /\ \E tab \in Tabs \ {activeTab} : ShowTab(tab, todos["sidebar"])

\* The mount of Home: the upload tab is shown and the sidebar TodoList
\* mounts on the key 'todos'.
HomeMount ==
    /\ activeTab' = "upload"
    /\ crashed' = MountCrashes("TodoList", ls["todos"])
    /\ savedNotes' = EmptyArray
    /\ flashcards' = EmptyArray
    /\ questions' = EmptyArray
    /\ quizResults' = EmptyArray
    /\ todos' = [i \in {"sidebar", "tab"} |->
                    IF i = "sidebar" THEN Loaded(ls["todos"]) ELSE EmptyArray]
    /\ ls' = [ls EXCEPT !["todos"] = MountSaved("TodoList", ls["todos"])]
    /\ console' = LoadLog(ls["todos"], "Error loading todos:")
    /\ quiz' = NoQuiz
    /\ SurfacesMount("upload")

\* the end of a visit: component state is gone, localStorage stays
HomeUnmount ==
    /\ activeTab' = "upload"
    /\ crashed' = FALSE
    /\ savedNotes' = EmptyArray
    /\ flashcards' = EmptyArray
    /\ questions' = EmptyArray
    /\ quizResults' = EmptyArray
    /\ todos' = [i \in {"sidebar", "tab"} |-> EmptyArray]
    /\ console' = {}
    /\ quiz' = NoQuiz
    /\ generatedNotes' = <<>>
    /\ noteMeta' = NullValue
    /\ uploadedFiles' = 0
    /\ filled' = [s \in Surfaces \ {"upload"} |-> FALSE]
    /\ processing' = [s \in Surfaces |-> FALSE]
    /\ reqs' = <<>>
    /\ done' = NoDone
    /\ preview' = NoPreview
    /\ UNCHANGED <<ls, now>>

(***************************************************************************)
(* Model selection: OllamaStatus, localStorage['selectedOllamaModel'] and  *)
(* the model callOllama puts in its request.                               *)
(***************************************************************************)
Absent == "(absent)"          \* localStorage.getItem(...) === null

DefaultModel == "llama2"

Models == {"llama2", "mistral", "phi"}

\* what GET /api/tags can do: fail, or list the installed models
\* (hasModels = FALSE: a JSON reply without a models field)
TagsOutcomes ==
    {[kind |-> k, hasModels |-> FALSE, models |-> <<>>] :
        k \in {"unreachable", "status", "undecodable"}}
      \cup {[kind |-> "ok", hasModels |-> FALSE, models |-> <<>>]}
      \cup {[kind |-> "ok", hasModels |-> TRUE, models |-> ms] :
              ms \in {<<>>, <<"llama2">>, <<"mistral">>, <<"llama2", "mistral">>,
                      <<"mistral", "phi">>, <<"phi", "llama2">>}}

\* the try block of checkOllamaConnection: fetch, then response.ok (the body
\* is not read)
checkOllamaConnectionTry(o) ==
    IF o.kind = "unreachable" THEN [threw |-> TRUE, value |-> FALSE]
    ELSE [threw |-> FALSE, value |-> o.kind # "status"]

\* checkOllamaConnection with the catch block left out
checkOllamaConnectionNoCatch(o) == checkOllamaConnectionTry(o)

checkOllamaConnection(o) ==
    LET body == checkOllamaConnectionTry(o)
    IN  IF body.threw THEN [threw |-> FALSE, value |-> FALSE] ELSE body

\* the try block of getAvailableModels:
\* data.models?.map(model => model.name) || []
getAvailableModelsTry(o) ==
    IF o.kind # "ok" THEN [threw |-> TRUE, value |-> <<>>]
    ELSE [threw |-> FALSE, value |-> IF o.hasModels THEN o.models ELSE <<>>]

\* getAvailableModels with the catch block left out
getAvailableModelsNoCatch(o) == getAvailableModelsTry(o)

getAvailableModels(o) ==
    LET body == getAvailableModelsTry(o)
    IN  IF body.threw THEN [threw |-> FALSE, value |-> <<DefaultModel>>] ELSE body

InSeq(x, s) == \E i \in 1..Len(s) : s[i] = x

\* callOllama, line 57: localStorage.getItem('selectedOllamaModel') || 'llama2'
SelectedModelOf(stored) == IF stored = Absent THEN DefaultModel ELSE stored

NoCheck == [stage |-> "none", sel |-> DefaultModel]

ModelIdle ==
    /\ lsModel = Absent
    /\ selectedModel = DefaultModel
    /\ isConnected = "null"
    /\ availableModels = <<>>
    /\ checking = FALSE
    /\ check = NoCheck
    /\ sentModel = "none"

\* The mount of OllamaStatus.  The first render has selectedModel = 'llama2'.
\* Its effects run in the order they are declared: checkConnection() starts
\* (with that render's selectedModel in its closure), then the save effect
\* writes the state to localStorage, then the load effect reads localStorage
\* and sets the state; if that changed the state, the save effect of the
\* next render writes it again.
OllamaStatusMountSaved(stored) == DefaultModel          \* after the save effect

OllamaStatusMountLoaded(stored) ==
    LET saved == OllamaStatusMountSaved(stored)
    IN  IF saved # Absent THEN saved ELSE DefaultModel

OllamaStatusMount ==
    /\ selectedModel' = OllamaStatusMountLoaded(lsModel)
    /\ lsModel' = selectedModel'
    /\ isConnected' = "null"
    /\ availableModels' = <<>>
    /\ checking' = TRUE
    /\ check' = [stage |-> "conn", sel |-> DefaultModel]
    /\ UNCHANGED sentModel

\* a visit begins: the page is loaded and its components mount
OpenPage ==
    /\ page = "closed"
    /\ page' = "open"
    /\ OllamaStatusMount
    /\ HomeMount

\* a visit ends (reload, tab closed): component state and the calls in
\* flight are gone, localStorage stays
ClosePage ==
    /\ page = "open"
    /\ page' = "closed"
    /\ selectedModel' = DefaultModel
    /\ isConnected' = "null"
    /\ availableModels' = <<>>
    /\ checking' = FALSE
    /\ check' = NoCheck
    /\ UNCHANGED <<lsModel, sentModel>>
    /\ HomeUnmount

\* the Check button (disabled while checking)
ClickCheck ==
    /\ page = "open"
    /\ ~checking
    /\ checking' = TRUE
    /\ check' = [stage |-> "conn", sel |-> selectedModel]
    /\ UNCHANGED <<page, lsModel, selectedModel, isConnected, availableModels,
                   sentModel>>

\* checkConnection after await checkOllamaConnection()
CheckConnected ==
    /\ page = "open"
    /\ check.stage = "conn"
    /\ \E o \in TagsOutcomes :
          IF checkOllamaConnection(o).value
          THEN /\ isConnected' = "true"
               /\ check' = [check EXCEPT !.stage = "models"]
               /\ UNCHANGED checking
          ELSE /\ isConnected' = "false"
               /\ check' = NoCheck
               /\ checking' = FALSE
    /\ UNCHANGED <<page, lsModel, selectedModel, availableModels, sentModel>>

\* checkConnection after await getAvailableModels(); a changed selection is
\* written by the save effect
CheckModels ==
    /\ page = "open"
    /\ check.stage = "models"
    /\ \E o \in TagsOutcomes :
          LET models == getAvailableModels(o).value
          IN  /\ availableModels' = models
              /\ IF Len(models) > 0 /\ ~InSeq(check.sel, models)
                 THEN selectedModel' = models[1] /\ lsModel' = models[1]
                 ELSE UNCHANGED <<selectedModel, lsModel>>
    /\ check' = NoCheck
    /\ checking' = FALSE
    /\ UNCHANGED <<page, isConnected, sentModel>>

\* the model select (shown when connected and the list is not empty); the
\* save effect writes the new selection
SelectModel ==
    /\ page = "open"
    /\ isConnected = "true"
    /\ Len(availableModels) > 0
    /\ \E i \in 1..Len(availableModels) :
          /\ availableModels[i] # selectedModel
          /\ selectedModel' = availableModels[i]
          /\ lsModel' = availableModels[i]
    /\ UNCHANGED <<page, isConnected, availableModels, checking, check, sentModel>>

\* a completion request: callOllama reads the model from localStorage
SendCompletion ==
    /\ page = "open"
    /\ sentModel' = SelectedModelOf(lsModel)
    /\ UNCHANGED <<page, lsModel, selectedModel, isConnected, availableModels,
                   checking, check>>

ModelInit ==
    /\ page = "closed"
    /\ ModelIdle
    /\ GenIdle
    /\ StoreIdle
    /\ AppIdle

ModelNext ==
    \/ OpenPage /\ UNCHANGED genVars
    \/ ClosePage /\ UNCHANGED genVars
    \/ ClickCheck /\ UNCHANGED <<genVars, storeVars, appVars>>
    \/ CheckConnected /\ UNCHANGED <<genVars, storeVars, appVars>>
    \/ CheckModels /\ UNCHANGED <<genVars, storeVars, appVars>>
    \/ SelectModel /\ UNCHANGED <<genVars, storeVars, appVars>>
    \/ SendCompletion /\ UNCHANGED <<genVars, storeVars, appVars>>

SpecModel == ModelInit /\ [][ModelNext]_vars

(***************************************************************************)
(* Loading the collections: any text under any key, then visits and tabs.  *)
(***************************************************************************)
StoredRecord == [id |-> 1, createdAt |-> "string"]

StoredTexts ==
    {AbsentText, EmptyText, GarbageText, NullValue, ObjectValue, EmptyArray,
     ArrayValue(<<StoredRecord>>)}

StoreInit ==
    /\ page = "closed"
    /\ ModelIdle
    /\ GenIdle
    /\ activeTab = "upload"
    /\ crashed = FALSE
    /\ ls \in [Keys -> StoredTexts]
    /\ savedNotes = EmptyArray
    /\ flashcards = EmptyArray
    /\ questions = EmptyArray
    /\ quizResults = EmptyArray
    /\ todos = [i \in {"sidebar", "tab"} |-> EmptyArray]
    /\ console = {}
    /\ quiz = NoQuiz
    /\ AppIdle

StoreNext ==
    \/ OpenPage /\ UNCHANGED genVars
    \/ ClosePage /\ UNCHANGED genVars
    \/ SwitchTab /\ UNCHANGED <<genVars, page, modelVars>>

SpecStore == StoreInit /\ [][StoreNext]_vars

(***************************************************************************)
(* The handlers of the generation surfaces.                                *)
(***************************************************************************)
\* onDrop of the dropzone
onDrop ==
    /\ page = "open" /\ ~crashed /\ activeTab = "upload"
    /\ uploadedFiles < MaxFiles
    /\ uploadedFiles' = uploadedFiles + 1
    /\ UNCHANGED <<now, generatedNotes, noteMeta, filled, processing, reqs, done,
                   preview>>

removeFile ==
    /\ page = "open" /\ ~crashed /\ activeTab = "upload"
    /\ uploadedFiles > 0
    /\ uploadedFiles' = uploadedFiles - 1
    /\ UNCHANGED <<now, generatedNotes, noteMeta, filled, processing, reqs, done,
                   preview>>

\* onChange of the textarea of a text surface: the text becomes blank or not
TypeInput ==
    /\ page = "open" /\ ~crashed /\ activeTab \in Surfaces \ {"upload"}
    /\ filled' = [filled EXCEPT ![activeTab] = ~filled[activeTab]]
    /\ UNCHANGED <<now, generatedNotes, noteMeta, uploadedFiles, processing, reqs,
                   done, preview>>

\* The generate button of the surface shown (disabled while processing or
\* without input): processFiles, generateFullNotes, generateCards and
\* generateQuestions up to their await.
GenerateFrom(surfaces) ==
    /\ page = "open" /\ ~crashed /\ activeTab \in surfaces
    /\ activeTab = "quiz" => ~quiz.quizStarted
    /\ IF activeTab = "upload" THEN uploadedFiles > 0 ELSE filled[activeTab]
    /\ ~processing[activeTab]
    /\ Len(reqs) < MaxReqs
    /\ processing' = [processing EXCEPT ![activeTab] = TRUE]
    /\ reqs' = Append(reqs, [surface |-> activeTab, live |-> TRUE,
                             meta |-> noteMeta])
    /\ sentModel' = SelectedModelOf(lsModel)
    /\ UNCHANGED <<now, generatedNotes, noteMeta, uploadedFiles, filled, done,
                   preview>>

Generate == GenerateFrom(Surfaces)

RemoveAt(s, i) == SubSeq(s, 1, i - 1) \o SubSeq(s, i + 1, Len(s))

\* the handler without its finally block
ProcessingKept(r) == processing

\* finally { setProcessing(false) }
ProcessingCleared(r) ==
    IF r.live THEN [processing EXCEPT ![r.surface] = FALSE] ELSE processing

\* Home.handleNotesGenerated; when NotesManager is shown it renders again
\* and its save effect runs
handleNotesGenerated(note) ==
    /\ Len(generatedNotes) < MaxNotes
    /\ generatedNotes' = <<note>> \o generatedNotes
    /\ ls' = IF activeTab = "notes" /\ savedNotes.t = "array"
             THEN [ls EXCEPT !["studyNotes"] =
                      Stringify(NotesToSave(generatedNotes', savedNotes))]
             ELSE ls

\* processFiles after await generateNotes(...)
processFiles ==
    /\ page = "open" /\ ~crashed
    /\ \E i \in 1..Len(reqs), g \in SurfaceOutcomes :
          LET r == reqs[i]
              notes == generateNotes(g)
              noteData == [id |-> NoteMetaId(r.meta), sourceType |-> "file",
                           createdAt |-> "Date"]
          IN  /\ r.surface = "upload"
              /\ reqs' = RemoveAt(reqs, i)
              /\ processing' = ProcessingCleared(r)
              /\ IF notes.threw
                 THEN /\ console' = console \cup {"Error processing files:"}
                      /\ done' = Done("upload", g.kind, TRUE, "none", FALSE)
                      /\ UNCHANGED <<generatedNotes, ls>>
                 ELSE /\ handleNotesGenerated(noteData)
                      /\ done' = Done("upload", g.kind, FALSE, "none", FALSE)
                      /\ UNCHANGED console
    /\ UNCHANGED <<now, noteMeta, uploadedFiles, filled, preview>>

\* generateFullNotes after await generateNotes(...)
generateFullNotes ==
    /\ page = "open" /\ ~crashed
    /\ \E i \in 1..Len(reqs), g \in SurfaceOutcomes :
          LET r == reqs[i]
              notes == generateNotes(g)
              noteData == [id |-> TimeId(now), sourceType |-> "text",
                           createdAt |-> "Date"]
          IN  /\ r.surface = "text"
              /\ reqs' = RemoveAt(reqs, i)
              /\ processing' = ProcessingCleared(r)
              /\ IF notes.threw
                 THEN /\ console' = console \cup {"Error generating notes:"}
                      /\ done' = Done("text", g.kind, TRUE, "destructive", FALSE)
                      /\ UNCHANGED <<generatedNotes, ls, now>>
                 ELSE /\ now < MaxClock
                      /\ now' = now + 1
                      /\ handleNotesGenerated(noteData)
                      /\ done' = Done("text", g.kind, FALSE, "none", FALSE)
                      /\ UNCHANGED console
    /\ UNCHANGED <<noteMeta, uploadedFiles, filled, preview>>

\* { ...item, id, tags, createdAt, difficulty }
WithMetadata(item, id) ==
    [k \in DOMAIN item \cup {"id", "createdAt"} |->
        CASE k = "id" -> id
          [] k = "createdAt" -> "Date"
          [] k = "t" -> (IF item.t \in {"card", "question"} THEN item.t ELSE "object")
          [] OTHER -> item[k]]

\* newItems.map(item => ({ ...item, id: Date.now()... + Math.random()... }))
AllWithMetadata(newItems) ==
    [k \in 1..Len(newItems) |-> WithMetadata(newItems[k], RandomId(now, k))]

\* setState(() => items): the earlier records are dropped
PrependedDroppingPrev(items, prev) ==
    IF prev.t = "array" THEN ArrayValue(items) ELSE prev

\* setState(prev => [...items, ...prev]): a prev that cannot be spread
\* throws in the next render
Prepended(items, prev) ==
    IF prev.t = "array" THEN ArrayValue(items \o prev.items) ELSE prev

\* generateCards after await generateFlashcards(...), which never throws
generateCards ==
    /\ page = "open" /\ ~crashed
    /\ now < MaxClock
    /\ \E i \in 1..Len(reqs), g \in SurfaceOutcomes :
          LET r == reqs[i]
              cardsWithMetadata == AllWithMetadata(generateFlashcards(g).value)
          IN  /\ r.surface = "flashcards"
              /\ reqs' = RemoveAt(reqs, i)
              /\ processing' = ProcessingCleared(r)
              /\ IF r.live
                 THEN /\ flashcards' = Prepended(cardsWithMetadata, flashcards)
                      /\ crashed' = (flashcards.t # "array")
                      /\ ls' = IF crashed' THEN ls
                               ELSE [ls EXCEPT !["flashcards"] = Stringify(flashcards')]
                      /\ filled' = [filled EXCEPT !["flashcards"] = FALSE]
                 ELSE UNCHANGED <<flashcards, crashed, ls, filled>>
              /\ done' = Done("flashcards", g.kind, FlashcardsTry(g).threw,
                              "default", FlashcardsTry(g).threw)
    /\ now' = now + 1
    /\ UNCHANGED <<generatedNotes, noteMeta, uploadedFiles, preview>>

\* generateQuestions after await generateMCQs(...), which never throws
generateQuestions ==
    /\ page = "open" /\ ~crashed
    /\ now < MaxClock
    /\ \E i \in 1..Len(reqs), g \in SurfaceOutcomes :
          LET r == reqs[i]
              questionsWithMetadata == AllWithMetadata(generateMCQs(g).value)
          IN  /\ r.surface = "quiz"
              /\ reqs' = RemoveAt(reqs, i)
              /\ processing' = ProcessingCleared(r)
              /\ IF r.live
                 THEN /\ questions' = Prepended(questionsWithMetadata, questions)
                      /\ crashed' = QuizRenderThrows(questions', quiz)
                      /\ ls' = IF crashed' THEN ls
                               ELSE [ls EXCEPT !["mcQuestions"] = Stringify(questions')]
                      /\ filled' = [filled EXCEPT !["quiz"] = FALSE]
                 ELSE UNCHANGED <<questions, crashed, ls, filled>>
              /\ done' = Done("quiz", g.kind, MCQsTry(g).threw, "default",
                              MCQsTry(g).threw)
    /\ now' = now + 1
    /\ UNCHANGED <<generatedNotes, noteMeta, uploadedFiles, preview>>

(***************************************************************************)
(* The quiz: startQuiz, handleAnswerSelect, nextQuestion (which ends in    *)
(* finishQuiz on the last question), prevQuestion and resetQuiz.           *)
(***************************************************************************)
\* the quiz card is shown, with questions[currentQuestionIndex] on it
QuizCardShown ==
    /\ page = "open" /\ ~crashed /\ activeTab = "quiz"
    /\ quiz.quizStarted /\ ~quiz.showResults
    /\ quiz.currentQuestionIndex < Len(questions.items)

\* the Start Quiz button (shown when there are questions and no quiz runs)
startQuiz ==
    /\ page = "open" /\ ~crashed /\ activeTab = "quiz"
    /\ ~quiz.quizStarted
    /\ Len(questions.items) > 0
    /\ quiz' = [NoQuiz EXCEPT !.quizStarted = TRUE]
    /\ crashed' = QuizRenderThrows(questions, quiz')
    /\ UNCHANGED <<activeTab, ls, savedNotes, flashcards, questions, quizResults,
                   todos, console>>

\* an option button of the question shown
handleAnswerSelect ==
    /\ QuizCardShown
    /\ LET currentQuestion == questions.items[quiz.currentQuestionIndex + 1]
       IN  \E answerIndex \in 0..(currentQuestion.options - 1) :
              /\ answerIndex <= MaxChoice
              /\ quiz' = [quiz EXCEPT
                            !.selectedAnswers =
                                [id \in DOMAIN quiz.selectedAnswers \cup {currentQuestion.id}
                                   |-> IF id = currentQuestion.id THEN answerIndex
                                       ELSE quiz.selectedAnswers[id]],
                            !.order =
                                IF currentQuestion.id \in DOMAIN quiz.selectedAnswers
                                THEN @ ELSE Append(@, currentQuestion.id)]
    /\ UNCHANGED <<activeTab, crashed, ls, savedNotes, flashcards, questions,
                   quizResults, todos, console>>

\* the Previous button (disabled on the first question)
prevQuestion ==
    /\ QuizCardShown
    /\ quiz.currentQuestionIndex > 0
    /\ quiz' = [quiz EXCEPT !.currentQuestionIndex = @ - 1]
    /\ crashed' = QuizRenderThrows(questions, quiz')
    /\ UNCHANGED <<activeTab, ls, savedNotes, flashcards, questions, quizResults,
                   todos, console>>

\* selectedAnswers[question.id] ?? -1
Unanswered == -1

\* One answer record of finishQuiz; correct is
\* selectedAnswers[question.id] === question.correctAnswer, where a missing
\* answer and a missing correctAnswer are both undefined.
AnswerOf(question, selected) ==
    LET answered == question.id \in DOMAIN selected
    IN  [questionId |-> question.id,
         selectedAnswer |-> IF answered THEN selected[question.id] ELSE Unanswered,
         correct |-> IF answered
                     THEN "correctAnswer" \in DOMAIN question
                             /\ selected[question.id] = question.correctAnswer
                     ELSE "correctAnswer" \notin DOMAIN question]

\* answer records for the answered questions only
QuizAnswersOfAnswered(qs, selected) ==
    LET some == SelectSeq(qs, LAMBDA question : question.id \in DOMAIN selected)
    IN  [i \in 1..Len(some) |-> AnswerOf(some[i], selected)]

\* questions.map(question => ...): one record per question, in order
QuizAnswers(qs, selected) ==
    [i \in 1..Len(qs) |-> AnswerOf(qs[i], selected)]

\* the QuizResult record of finishQuiz
QuizResultOf(qs, selected, id) ==
    LET answers == QuizAnswers(qs, selected)
    IN  [id |-> id,
         score |-> Cardinality({i \in 1..Len(answers) : answers[i].correct}),
         totalQuestions |-> Len(qs),
         answers |-> answers,
         completedAt |-> "Date"]

\* the Next / Finish Quiz button (disabled until the question shown is
\* answered): the next question, or finishQuiz on the last one
nextQuestion ==
    /\ QuizCardShown
    /\ questions.items[quiz.currentQuestionIndex + 1].id \in DOMAIN quiz.selectedAnswers
    /\ IF quiz.currentQuestionIndex < Len(questions.items) - 1
       THEN /\ quiz' = [quiz EXCEPT !.currentQuestionIndex = @ + 1]
            /\ UNCHANGED <<quizResults, ls, now>>
       ELSE /\ now < MaxQuizClock
            /\ now' = now + 1
            /\ quiz' = [quiz EXCEPT !.showResults = TRUE]
            /\ quizResults' =
                   Prepended(<<QuizResultOf(questions.items, quiz.selectedAnswers,
                                            TimeId(now))>>, quizResults)
            /\ ls' = IF quizResults.t = "array" /\ ~QuizRenderThrows(questions, quiz')
                     THEN [ls EXCEPT !["quizResults"] = Stringify(quizResults')]
                     ELSE ls
    /\ crashed' = (QuizRenderThrows(questions, quiz') \/ quizResults.t # "array")
    /\ UNCHANGED <<activeTab, savedNotes, flashcards, questions, todos, console>>

\* The score of the results screen:
\* Object.values(selectedAnswers).filter((answer, index) =>
\*     answer === questions[index]?.correctAnswer).length
ShownScore(qs, q) ==
    Cardinality({i \in 1..Len(q.order) :
                    /\ i <= Len(qs)
                    /\ "correctAnswer" \in DOMAIN qs[i]
                    /\ q.selectedAnswers[q.order[i]] = qs[i].correctAnswer})

\* the Take Again button of the results
resetQuiz ==
    /\ page = "open" /\ ~crashed /\ activeTab = "quiz"
    /\ quiz.showResults
    /\ quiz' = NoQuiz
    /\ UNCHANGED <<activeTab, crashed, ls, savedNotes, flashcards, questions,
                   quizResults, todos, console>>

\* a visit with generation on every surface; 'studyNotes' may hold a note
\* of an earlier visit
StoredNote == [id |-> TimeId(0), sourceType |-> "text", createdAt |-> "string"]

AppInit ==
    /\ page = "closed"
    /\ ModelIdle
    /\ GenIdle
    /\ activeTab = "upload"
    /\ crashed = FALSE
    /\ \E text \in {AbsentText, ArrayValue(<<StoredNote>>)} :
          ls = [k \in Keys |-> IF k = "studyNotes" THEN text ELSE AbsentText]
    /\ savedNotes = EmptyArray
    /\ flashcards = EmptyArray
    /\ questions = EmptyArray
    /\ quizResults = EmptyArray
    /\ todos = [i \in {"sidebar", "tab"} |-> EmptyArray]
    /\ console = {}
    /\ quiz = NoQuiz
    /\ AppIdle

AppNext ==
    \/ OpenPage /\ UNCHANGED genVars
    \/ ClosePage /\ UNCHANGED genVars
    \/ SwitchTab /\ UNCHANGED <<genVars, page, modelVars>>
    \/ onDrop /\ UNCHANGED <<genVars, page, modelVars, storeVars>>
    \/ removeFile /\ UNCHANGED <<genVars, page, modelVars, storeVars>>
    \/ TypeInput /\ UNCHANGED <<genVars, page, modelVars, storeVars>>
    \/ Generate
         /\ UNCHANGED <<genVars, page, lsModel, selectedModel, isConnected,
                        availableModels, checking, check, storeVars>>
    \/ processFiles
         /\ UNCHANGED <<genVars, page, modelVars, activeTab, crashed, savedNotes,
                        flashcards, questions, quizResults, todos, quiz>>
    \/ generateFullNotes
         /\ UNCHANGED <<genVars, page, modelVars, activeTab, crashed, savedNotes,
                        flashcards, questions, quizResults, todos, quiz>>
    \/ generateCards
         /\ UNCHANGED <<genVars, page, modelVars, activeTab, savedNotes,
                        questions, quizResults, todos, console, quiz>>
    \/ generateQuestions
         /\ UNCHANGED <<genVars, page, modelVars, activeTab, savedNotes,
                        flashcards, quizResults, todos, console, quiz>>

SpecApp == AppInit /\ [][AppNext]_vars

\* A visit to the quiz: 'mcQuestions' may hold two
\* questions generated by an earlier visit.
StoredQuestions ==
    ArrayValue([k \in 1..2 |->
        ToJSON(WithMetadata(QuestionValue, RandomId(0, k)))])

QuizInit ==
    /\ page = "closed"
    /\ ModelIdle
    /\ GenIdle
    /\ quiz = NoQuiz
    /\ activeTab = "upload"
    /\ crashed = FALSE
    /\ \E text \in {AbsentText, StoredQuestions} :
          ls = [k \in Keys |-> IF k = "mcQuestions" THEN text ELSE AbsentText]
    /\ savedNotes = EmptyArray
    /\ flashcards = EmptyArray
    /\ questions = EmptyArray
    /\ quizResults = EmptyArray
    /\ todos = [i \in {"sidebar", "tab"} |-> EmptyArray]
    /\ console = {}
    /\ AppIdle

QuizNext ==
    \/ OpenPage /\ UNCHANGED genVars
    \/ ClosePage /\ UNCHANGED genVars
    \/ SwitchTab /\ UNCHANGED <<genVars, page, modelVars>>
    \/ TypeInput /\ UNCHANGED <<genVars, page, modelVars, storeVars>>
    \/ GenerateFrom({"quiz"})
         /\ UNCHANGED <<genVars, page, lsModel, selectedModel, isConnected,
                        availableModels, checking, check, storeVars>>
    \/ generateQuestions
         /\ UNCHANGED <<genVars, page, modelVars, activeTab, savedNotes,
                        flashcards, quizResults, todos, console, quiz>>
    \/ startQuiz /\ UNCHANGED <<genVars, page, modelVars, appVars>>
    \/ handleAnswerSelect /\ UNCHANGED <<genVars, page, modelVars, appVars>>
    \/ prevQuestion /\ UNCHANGED <<genVars, page, modelVars, appVars>>
    \/ nextQuestion
         /\ UNCHANGED <<genVars, page, modelVars, generatedNotes, noteMeta,
                        uploadedFiles, filled, processing, reqs, done,
                        preview>>
    \/ resetQuiz /\ UNCHANGED <<genVars, page, modelVars, appVars>>

SpecQuiz == QuizInit /\ [][QuizNext]_vars

(***************************************************************************)
(* The to-do lists.  The page mounts two TodoList instances, the sidebar   *)
(* one always and the To-Do tab's while that tab is shown; each keeps its  *)
(* own todos state and saves it under the key 'todos' when it changes.     *)
(***************************************************************************)
\* setTodos(...) in instance inst and the save effect that follows it
SetTodos(inst, items) ==
    /\ page = "open" /\ ~crashed
    /\ inst = "tab" => activeTab = "todo"
    /\ todos[inst].t = "array"
    /\ todos' = [todos EXCEPT ![inst] = ArrayValue(items)]
    /\ ls' = [ls EXCEPT !["todos"] = Stringify(todos'[inst])]
    /\ UNCHANGED <<activeTab, crashed, savedNotes, flashcards, questions,
                   quizResults, console, quiz>>
    /\ UNCHANGED <<generatedNotes, noteMeta, uploadedFiles, filled, processing,
                   reqs, done, preview>>

\* the Add button or Enter, with the text typed in the input
addTodo ==
    \E inst \in {"sidebar", "tab"}, newTodo \in {<<"sp">>, <<"w">>} :
        IF Trim(newTodo) = <<>>
        THEN page = "open" /\ ~crashed /\ UNCHANGED <<storeVars, appVars>>
        ELSE /\ now < MaxTodoClock
             /\ now' = now + 1
             /\ SetTodos(inst, <<[id |-> TimeId(now), text |-> Trim(newTodo),
                                  completed |-> FALSE, createdAt |-> "Date"]>>
                               \o todos[inst].items)

\* the checkbox of an item
toggleTodo ==
    \E inst \in {"sidebar", "tab"} :
        /\ todos[inst].t = "array"
        /\ \E n \in 1..Len(todos[inst].items) :
              LET id == todos[inst].items[n].id
              IN  SetTodos(inst,
                      [i \in 1..Len(todos[inst].items) |->
                          LET todo == todos[inst].items[i]
                          IN  IF todo.id = id
                              THEN [todo EXCEPT !.completed = ~todo.completed]
                              ELSE todo])
        /\ UNCHANGED now

\* the trash button of an item
deleteTodo ==
    \E inst \in {"sidebar", "tab"} :
        /\ todos[inst].t = "array"
        /\ \E n \in 1..Len(todos[inst].items) :
              LET id == todos[inst].items[n].id
              IN  SetTodos(inst,
                      SelectSeq(todos[inst].items, LAMBDA todo : todo.id # id))
        /\ UNCHANGED now

\* Clear Completed, shown by the To-Do tab's list while an item is completed
clearCompleted ==
    /\ todos["tab"].t = "array"
    /\ \E n \in 1..Len(todos["tab"].items) : todos["tab"].items[n].completed
    /\ SetTodos("tab", SelectSeq(todos["tab"].items,
                                 LAMBDA todo : ~todo.completed))
    /\ UNCHANGED now

TodoNext ==
    \/ OpenPage /\ UNCHANGED genVars
    \/ ClosePage /\ UNCHANGED genVars
    \/ SwitchTab /\ UNCHANGED <<genVars, page, modelVars>>
    \/ addTodo /\ UNCHANGED <<genVars, page, modelVars>>
    \/ toggleTodo /\ UNCHANGED <<genVars, page, modelVars>>
    \/ deleteTodo /\ UNCHANGED <<genVars, page, modelVars>>
    \/ clearCompleted /\ UNCHANGED <<genVars, page, modelVars>>

SpecTodo == AppInit /\ [][TodoNext]_vars

\* A visit in which each stored collection changes: flashcards and questions
\* are generated, a quiz is taken and to-dos are edited.
RoundNext ==
    \/ OpenPage /\ UNCHANGED genVars
    \/ ClosePage /\ UNCHANGED genVars
    \/ SwitchTab /\ UNCHANGED <<genVars, page, modelVars>>
    \/ TypeInput /\ UNCHANGED <<genVars, page, modelVars, storeVars>>
    \/ GenerateFrom({"flashcards", "quiz"})
         /\ UNCHANGED <<genVars, page, lsModel, selectedModel, isConnected,
                        availableModels, checking, check, storeVars>>
    \/ generateCards
         /\ UNCHANGED <<genVars, page, modelVars, activeTab, savedNotes,
                        questions, quizResults, todos, console, quiz>>
    \/ generateQuestions
         /\ UNCHANGED <<genVars, page, modelVars, activeTab, savedNotes,
                        flashcards, quizResults, todos, console, quiz>>
    \/ startQuiz /\ UNCHANGED <<genVars, page, modelVars, appVars>>
    \/ handleAnswerSelect /\ UNCHANGED <<genVars, page, modelVars, appVars>>
    \/ nextQuestion
         /\ UNCHANGED <<genVars, page, modelVars, generatedNotes, noteMeta,
                        uploadedFiles, filled, processing, reqs, done,
                        preview>>
    \/ addTodo /\ UNCHANGED <<genVars, page, modelVars>>
    \/ toggleTodo /\ UNCHANGED <<genVars, page, modelVars>>
    \/ deleteTodo /\ UNCHANGED <<genVars, page, modelVars>>

SpecRound == AppInit /\ [][RoundNext]_vars

(***************************************************************************)
(* The notes manager, shown on the notes tab: the cards of                 *)
(* allNotes = [...notes, ...savedNotes], each with Edit and Delete.        *)
(***************************************************************************)
\* the Delete button of the n-th card, confirmed: both sets are filtered on
\* the id, then the save effect runs
deleteNote ==
    /\ page = "open" /\ ~crashed /\ activeTab = "notes"
    /\ savedNotes.t = "array"
    /\ \E n \in 1..Len(generatedNotes \o savedNotes.items) :
          LET noteId == (generatedNotes \o savedNotes.items)[n].id
          IN  /\ generatedNotes' =
                    SelectSeq(generatedNotes, LAMBDA note : note.id # noteId)
              /\ savedNotes' =
                    ArrayValue(SelectSeq(savedNotes.items,
                                         LAMBDA note : note.id # noteId))
    /\ ls' = [ls EXCEPT !["studyNotes"] =
                 Stringify(NotesToSave(generatedNotes', savedNotes'))]
    /\ UNCHANGED <<activeTab, crashed, flashcards, questions, quizResults, todos,
                   console, quiz>>
    /\ UNCHANGED <<now, noteMeta, uploadedFiles, filled, processing, reqs, done,
                   preview>>

\* Edit on the n-th card, a change of the content, Save Changes
saveNote ==
    /\ page = "open" /\ ~crashed /\ activeTab = "notes"
    /\ savedNotes.t = "array"
    /\ \E n \in 1..Len(generatedNotes \o savedNotes.items) :
          LET noteData == (generatedNotes \o savedNotes.items)[n]
              updatedNote ==
                  [k \in DOMAIN noteData \cup {"content", "updatedAt"} |->
                      CASE k = "content" -> "edited"
                        [] k = "updatedAt" -> "Date"
                        [] OTHER -> noteData[k]]
              Updated(notes) ==
                  [i \in 1..Len(notes) |->
                      IF notes[i].id = noteData.id THEN updatedNote ELSE notes[i]]
          IN  IF \E i \in 1..Len(generatedNotes) :
                    generatedNotes[i].id = noteData.id
              THEN /\ generatedNotes' = Updated(generatedNotes)
                   /\ UNCHANGED savedNotes
              ELSE /\ savedNotes' = ArrayValue(Updated(savedNotes.items))
                   /\ UNCHANGED generatedNotes
    /\ ls' = [ls EXCEPT !["studyNotes"] =
                 Stringify(NotesToSave(generatedNotes', savedNotes'))]
    /\ UNCHANGED <<activeTab, crashed, flashcards, questions, quizResults, todos,
                   console, quiz>>
    /\ UNCHANGED <<now, noteMeta, uploadedFiles, filled, processing, reqs, done,
                   preview>>

\* A visit in which notes are generated from files and from text, edited
\* and deleted.
NotesNext ==
    \/ OpenPage /\ UNCHANGED genVars
    \/ ClosePage /\ UNCHANGED genVars
    \/ SwitchTab /\ UNCHANGED <<genVars, page, modelVars>>
    \/ onDrop /\ UNCHANGED <<genVars, page, modelVars, storeVars>>
    \/ TypeInput /\ UNCHANGED <<genVars, page, modelVars, storeVars>>
    \/ GenerateFrom({"upload", "text"})
         /\ UNCHANGED <<genVars, page, lsModel, selectedModel, isConnected,
                        availableModels, checking, check, storeVars>>
    \/ processFiles
         /\ UNCHANGED <<genVars, page, modelVars, activeTab, crashed, savedNotes,
                        flashcards, questions, quizResults, todos, quiz>>
    \/ generateFullNotes
         /\ UNCHANGED <<genVars, page, modelVars, activeTab, crashed, savedNotes,
                        flashcards, questions, quizResults, todos, quiz>>
    \/ deleteNote /\ UNCHANGED <<genVars, page, modelVars>>
    \/ saveNote /\ UNCHANGED <<genVars, page, modelVars>>

SpecNotes == AppInit /\ [][NotesNext]_vars

(***************************************************************************)
(* The live preview of TextInput: an effect on inputText that clears the   *)
(* preview for a text under 50 characters and otherwise sets a timeout of  *)
(* one second, whose callback awaits generateNotes and sets the preview;   *)
(* the cleanup of the effect clears the timeout.                           *)
(***************************************************************************)
\* onChange of the textarea, then the cleanup and the effect on inputText
changeInputText ==
    /\ page = "open" /\ ~crashed /\ activeTab = "text"
    /\ preview.inputText.v < MaxEdits
    /\ \E long \in BOOLEAN, nonBlank \in BOOLEAN :
          /\ long => nonBlank
          /\ preview' =
                [preview EXCEPT
                    !.inputText = [v |-> @.v + 1, long |-> long],
                    !.timer = IF long THEN preview.inputText.v + 1 ELSE 0,
                    !.previewContent = IF long THEN @ ELSE 0]
          /\ filled' = [filled EXCEPT !["text"] = nonBlank]
    /\ UNCHANGED <<now, generatedNotes, noteMeta, uploadedFiles, processing, reqs,
                   done>>

\* the timeout runs out: the callback calls generateNotes on the text of
\* the render that set it
previewTimeout ==
    /\ page = "open" /\ ~crashed /\ activeTab = "text"
    /\ preview.timer # 0
    /\ preview' = [preview EXCEPT
                      !.timer = 0,
                      !.requests = @ \cup {[v |-> preview.timer, live |-> TRUE]}]
    /\ sentModel' = SelectedModelOf(lsModel)
    /\ UNCHANGED <<now, generatedNotes, noteMeta, uploadedFiles, filled,
                   processing, reqs, done>>

\* the callback after await generateNotes(...)
previewArrives ==
    /\ page = "open" /\ ~crashed
    /\ \E r \in preview.requests, g \in SurfaceOutcomes :
          /\ preview' =
                [preview EXCEPT
                    !.requests = @ \ {r},
                    !.previewContent =
                        IF ~generateNotes(g).threw /\ r.live THEN r.v ELSE @]
          /\ console' = IF generateNotes(g).threw
                        THEN console \cup {"Error generating preview:"}
                        ELSE console
    /\ UNCHANGED <<now, generatedNotes, noteMeta, uploadedFiles, filled,
                   processing, reqs, done>>

PreviewNext ==
    \/ OpenPage /\ UNCHANGED genVars
    \/ ClosePage /\ UNCHANGED genVars
    \/ SwitchTab /\ UNCHANGED <<genVars, page, modelVars>>
    \/ changeInputText /\ UNCHANGED <<genVars, page, modelVars, storeVars>>
    \/ previewTimeout
         /\ UNCHANGED <<genVars, page, lsModel, selectedModel, isConnected,
                        availableModels, checking, check, storeVars>>
    \/ previewArrives
         /\ UNCHANGED <<genVars, page, modelVars, activeTab, crashed, ls,
                        savedNotes, flashcards, questions, quizResults, todos,
                        quiz>>

SpecPreview == AppInit /\ [][PreviewNext]_vars

(***************************************************************************)
(* The generation surfaces with every gateway call completing.  A request  *)
(* is issued only while the clock bound leaves a reading for each request  *)
(* in flight, so that the bound never holds a completion back.             *)
(***************************************************************************)
BusyNext ==
    \/ OpenPage /\ UNCHANGED genVars
    \/ ClosePage /\ UNCHANGED genVars
    \/ SwitchTab /\ UNCHANGED <<genVars, page, modelVars>>
    \/ onDrop /\ UNCHANGED <<genVars, page, modelVars, storeVars>>
    \/ TypeInput /\ UNCHANGED <<genVars, page, modelVars, storeVars>>
    \/ Generate
         /\ now + Len(reqs) < MaxClock
         /\ UNCHANGED <<genVars, page, lsModel, selectedModel, isConnected,
                        availableModels, checking, check, storeVars>>
    \/ processFiles
         /\ UNCHANGED <<genVars, page, modelVars, activeTab, crashed, savedNotes,
                        flashcards, questions, quizResults, todos, quiz>>
    \/ generateFullNotes
         /\ UNCHANGED <<genVars, page, modelVars, activeTab, crashed, savedNotes,
                        flashcards, questions, quizResults, todos, quiz>>
    \/ generateCards
         /\ UNCHANGED <<genVars, page, modelVars, activeTab, savedNotes,
                        questions, quizResults, todos, console, quiz>>
    \/ generateQuestions
         /\ UNCHANGED <<genVars, page, modelVars, activeTab, savedNotes,
                        flashcards, quizResults, todos, console, quiz>>

\* the gateway answers every call, so the rest of each handler runs
SpecBusy ==
    /\ AppInit
    /\ [][BusyNext]_vars
    /\ WF_vars(processFiles
                 /\ UNCHANGED <<genVars, page, modelVars, activeTab, crashed,
                                savedNotes, flashcards, questions, quizResults,
                                todos, quiz>>)
    /\ WF_vars(generateFullNotes
                 /\ UNCHANGED <<genVars, page, modelVars, activeTab, crashed,
                                savedNotes, flashcards, questions, quizResults,
                                todos, quiz>>)
    /\ WF_vars(generateCards
                 /\ UNCHANGED <<genVars, page, modelVars, activeTab, savedNotes,
                                questions, quizResults, todos, console, quiz>>)
    /\ WF_vars(generateQuestions
                 /\ UNCHANGED <<genVars, page, modelVars, activeTab, savedNotes,
                                flashcards, quizResults, todos, console, quiz>>)






(***************************************************************************)
(* The transformer on its own: one gateway outcome, one call.              *)
(***************************************************************************)
GenInit ==
    /\ gw \in GatewayOutcomes \cup TagsOutcomes
    /\ ret = NoCall
    /\ page = "closed"
    /\ ModelIdle
    /\ StoreIdle
    /\ AppIdle

CallFlashcards ==
    /\ gw \in GatewayOutcomes
    /\ ret.fn = "none"
    /\ ret' = CallResult("flashcards", generateFlashcards(gw))
    /\ UNCHANGED gw

CallMCQs ==
    /\ gw \in GatewayOutcomes
    /\ ret.fn = "none"
    /\ ret' = CallResult("mcqs", generateMCQs(gw))
    /\ UNCHANGED gw

CallOllama ==
    /\ gw \in GatewayOutcomes
    /\ ret.fn = "none"
    /\ ret' = [fn |-> "callOllama"] @@ callOllama(gw)
    /\ UNCHANGED gw

\* a direct call of generateNotes on a short content
CallNotes ==
    /\ gw \in GatewayOutcomes
    /\ Len(gw.response) <= MaxNoteLen
    /\ ret.fn = "none"
    /\ \E content \in SeqsUpTo({"sp", "nl", "w"}, MaxNoteLen), style \in Styles :
          ret' = [fn |-> "generateNotes", content |-> content,
                  prompt |-> NotesPrompt(content, style)] @@ generateNotes(gw)
    /\ UNCHANGED gw

CallCheck ==
    /\ gw \in TagsOutcomes
    /\ ret.fn = "none"
    /\ ret' = [fn |-> "checkOllamaConnection"] @@ checkOllamaConnection(gw)
    /\ UNCHANGED gw

CallModels ==
    /\ gw \in TagsOutcomes
    /\ ret.fn = "none"
    /\ ret' = [fn |-> "getAvailableModels"] @@ getAvailableModels(gw)
    /\ UNCHANGED gw

GenNext ==
    \/ CallFlashcards /\ UNCHANGED <<page, modelVars, storeVars, appVars>>
    \/ CallMCQs /\ UNCHANGED <<page, modelVars, storeVars, appVars>>
    \/ CallOllama /\ UNCHANGED <<page, modelVars, storeVars, appVars>>
    \/ CallNotes /\ UNCHANGED <<page, modelVars, storeVars, appVars>>
    \/ CallCheck /\ UNCHANGED <<page, modelVars, storeVars, appVars>>
    \/ CallModels /\ UNCHANGED <<page, modelVars, storeVars, appVars>>

SpecGen == GenInit /\ [][GenNext]_vars

(***************************************************************************)
(* Properties of the transformer (SpecGen).                                *)
(***************************************************************************)
IsWellFormedCard(item) ==
    item.t = "card" /\ item.front # <<>> /\ item.back # <<>>

IsWellFormedQuestion(item) ==
    item.t = "question" /\ item.options = 4 /\ item.correctAnswer \in 0..3

\* C1: whatever the gateway did, generateFlashcards returns between 1 and 5
\* items, each with a non-empty front and a non-empty back.
C1_FlashcardsOneToFiveCards ==
    ret.fn = "flashcards" =>
        /\ ~ret.threw
        /\ Len(ret.value) \in 1..FlashcardLimit
        /\ \A i \in 1..Len(ret.value) : IsWellFormedCard(ret.value[i])

\* C2: whatever the gateway did, generateMCQs returns at least 1 item, each
\* with exactly 4 options and a correctAnswer in 0..3.
C2_MCQsAtLeastOneQuestion ==
    ret.fn = "mcqs" =>
        /\ ~ret.threw
        /\ Len(ret.value) >= 1
        /\ \A i \in 1..Len(ret.value) : IsWellFormedQuestion(ret.value[i])

\* C8: generateFlashcards and generateMCQs never raise: for every gateway
\* outcome the call completes with a returned sequence.
C8_GeneratorsNeverThrow ==
    ret.fn \in {"flashcards", "mcqs"} => ~ret.threw

\* C8's case: a call whose try block failed (the gateway call, the match on
\* an undefined response, or JSON.parse) has completed.
C8_Witness ==
    \/ ret.fn = "flashcards" /\ FlashcardsTry(gw).threw /\ gw.kind = "ok"
    \/ ret.fn = "mcqs" /\ MCQsTry(gw).threw /\ gw.kind = "unreachable"

(***************************************************************************)
(* Properties of the model selection (SpecModel).                          *)
(***************************************************************************)
\* C4: the model persisted by an earlier visit is the model callOllama sends
\* after the page is loaded again: loading the page does not change the model
\* that callOllama reads from localStorage, and 'llama2' stands in only when
\* nothing was persisted.
C4_ReloadKeepsSelectedModel ==
    [][(page = "closed" /\ page' = "open")
          => SelectedModelOf(lsModel') = SelectedModelOf(lsModel)]_vars

(***************************************************************************)
(* Properties of loading (SpecStore).                                      *)
(***************************************************************************)
Collections ==
    {"savedNotes", "flashcards", "questions", "quizResults", "todosSidebar",
     "todosTab"}

KeyOf(c) ==
    CASE c = "savedNotes" -> "studyNotes"
      [] c = "flashcards" -> "flashcards"
      [] c = "questions" -> "mcQuestions"
      [] c = "quizResults" -> "quizResults"
      [] c \in {"todosSidebar", "todosTab"} -> "todos"

TabOf(c) ==
    CASE c = "savedNotes" -> "notes"
      [] c = "flashcards" -> "flashcards"
      [] c \in {"questions", "quizResults"} -> "quiz"
      [] c = "todosTab" -> "todo"
      [] c = "todosSidebar" -> "(sidebar)"

\* the component state that holds collection c
Mem(c) ==
    CASE c = "savedNotes" -> savedNotes
      [] c = "flashcards" -> flashcards
      [] c = "questions" -> questions
      [] c = "quizResults" -> quizResults
      [] c = "todosSidebar" -> todos["sidebar"]
      [] c = "todosTab" -> todos["tab"]

\* the component of collection c is in the tree
Shown(c) == page = "open" /\ (c = "todosSidebar" \/ activeTab = TabOf(c))

\* C9: whatever text a collection's key holds, after loading the surface
\* holds a sequence of records and nothing throws.
C9_LoadLeavesSequence ==
    page = "open" =>
        /\ ~crashed
        /\ \A c \in Collections : Shown(c) => Mem(c).t = "array"

\* C10: when a collection's key is absent or holds text that is not JSON, the
\* mount that loads it leaves the collection empty; no error comes of that
\* load (if the tree went down, another collection loaded in the same step
\* holds a non-sequence); and every other key is as before, but for a key
\* loaded in the same step that held no sequence.
C10_MalformedLoadsEmpty ==
    [][\A c \in Collections :
          (~Shown(c) /\ Shown(c)' /\ ls[KeyOf(c)].t \in {"absent", "empty", "garbage"})
          => /\ Mem(c)' = EmptyArray
             /\ crashed' =>
                   \E d \in Collections \ {c} :
                       ~Shown(d) /\ Shown(d)' /\ Mem(d)'.t # "array"
             /\ \A k \in Keys \ {KeyOf(c)} :
                   \/ ls'[k] = ls[k]
                   \/ \E d \in Collections :
                         /\ KeyOf(d) = k /\ ~Shown(d) /\ Shown(d)'
                         /\ ls[k].t # "array"]_vars

\* C10's case: the quiz surface is up after its questions key held text that
\* is not JSON (the catch block logged it): the questions are empty and the
\* results loaded beside them are still there, in memory and under their key.
C10_Witness ==
    /\ page = "open" /\ activeTab = "quiz" /\ ~crashed
    /\ "Error loading questions:" \in console
    /\ questions = EmptyArray
    /\ quizResults = ArrayValue(<<StoredRecord>>)
    /\ ls["quizResults"] = ArrayValue(<<StoredRecord>>)


(***************************************************************************)
(* Properties of the generation surfaces (SpecApp).                        *)
(***************************************************************************)
\* C3: a note generated in a visit, from files or from text, is part of the
\* collection under 'studyNotes' when the visit ends.
C3_GeneratedNotePersisted ==
    [][(page = "open" /\ page' = "closed")
          => \A i \in 1..Len(generatedNotes) :
                /\ ls'["studyNotes"].t = "array"
                /\ \E j \in 1..Len(ls'["studyNotes"].items) :
                      ls'["studyNotes"].items[j].id = generatedNotes[i].id]_vars

\* no two records of a sequence have the same id
DistinctIds(items) ==
    \A i, j \in 1..Len(items) : i # j => items[i].id # items[j].id

\* C5: in every state the records of one collection have pairwise distinct
\* identifiers: the notes of the visit together with the persisted notes,
\* the flashcards, the quiz questions, the quiz results and the to-dos; so
\* two notes generated from the same file-upload view differ in their id.
C5_IdentifiersDistinct ==
    /\ DistinctIds(generatedNotes
                     \o (IF savedNotes.t = "array" THEN savedNotes.items ELSE <<>>))
    /\ \A v \in {flashcards, questions, quizResults, todos["sidebar"],
                 todos["tab"]} :
          v.t = "array" => DistinctIds(v.items)

\* C6: a generation request that met an unreachable endpoint or a reply
\* whose status is not a success ends with an error notification, whatever
\* the surface.
C6_EndpointFailureNotified ==
    done.kind \in {"unreachable", "status"} => done.toast = "destructive"

\* C7: a generation request that failed ended with a placeholder result
\* returned to the caller or with a notification shown to the user.
C7_FailureHasPlaceholderOrToast ==
    done.failed => (done.placeholder \/ done.toast # "none")

\* C12: on each generation surface at most one request issued from it is
\* outstanding at any time, whatever the user does, tab switches included.
C12_OneRequestPerSurface ==
    \A s \in Surfaces :
        Cardinality({i \in 1..Len(reqs) : reqs[i].surface = s}) <= 1

\* C13: when a request completes after the user has left its view (every
\* request of that surface in flight has lost its component) and it has a
\* result to deliver (notes text, or the placeholder items of a failed
\* flashcard or question request), the result is added to the collection:
\* a note joins the notes of the visit, flashcards and questions reach their
\* storage key.
C13_ResultDeliveredAfterLeaving ==
    [][(/\ page' = "open"
        /\ Len(reqs') = Len(reqs) - 1
        /\ \A i \in 1..Len(reqs) :
              reqs[i].surface = done'.surface => ~reqs[i].live)
          => /\ (done'.surface \in {"upload", "text"} /\ ~done'.failed)
                   => Len(generatedNotes') = Len(generatedNotes) + 1
             /\ (done'.surface = "flashcards" /\ done'.placeholder)
                   => ls'["flashcards"] # ls["flashcards"]
             /\ (done'.surface = "quiz" /\ done'.placeholder)
                   => ls'["mcQuestions"] # ls["mcQuestions"]]_vars

(***************************************************************************)
(* Properties of the gateway functions (SpecGen).                          *)
(***************************************************************************)
\* C14: callOllama fails when the endpoint is unreachable, answers with a
\* status that is not a success, or sends a body that cannot be decoded;
\* the error is the same in the three cases and its message names
\* localhost:11434.  Otherwise it returns.
C14_CallOllamaOneConnectError ==
    ret.fn = "callOllama" =>
        /\ ret.threw <=> gw.kind \in {"unreachable", "status", "undecodable"}
        /\ ret.threw =>
              /\ ret.error = ConnectError
              /\ \E i \in 1..Len(ret.error) : ret.error[i] = "localhost:11434"

C14_Witness ==
    ret.fn = "callOllama" /\ ret.threw /\ gw.kind = "undecodable"

\* C15: checkOllamaConnection never raises; it returns true only when the
\* probe got a success status, and false when the endpoint is unreachable
\* or the status is not a success.
C15_CheckConnectionNeverThrows ==
    ret.fn = "checkOllamaConnection" =>
        /\ ~ret.threw
        /\ ret.value => gw.kind \notin {"unreachable", "status"}
        /\ gw.kind \in {"unreachable", "status"} => ret.value = FALSE

C15_Witness ==
    ret.fn = "checkOllamaConnection" /\ gw.kind = "unreachable" /\ ~ret.value

\* C16: getAvailableModels never raises; when the probe fails it returns
\* <<'llama2'>>, and when it succeeds it returns the names of the installed
\* models in the order of the reply.
C16_ModelsNeverThrowsFallsBack ==
    ret.fn = "getAvailableModels" =>
        /\ ~ret.threw
        /\ gw.kind \in {"unreachable", "status"} => ret.value = <<"llama2">>
        /\ (gw.kind = "ok" /\ gw.hasModels) => ret.value = gw.models

C16_Witness ==
    \/ ret.fn = "getAvailableModels" /\ gw.kind = "status"
    \/ ret.fn = "getAvailableModels" /\ gw.kind = "ok" /\ Len(gw.models) = 2

\* C17: for each style the prompt generateNotes sends holds the content
\* unchanged; what the gateway replied is returned as it is; a failure of
\* the gateway is thrown on to the caller.
C17_NotesVerbatimAndPropagates ==
    ret.fn = "generateNotes" =>
        /\ \E i \in 0..(Len(ret.prompt) - Len(ret.content)) :
              SubSeq(ret.prompt, i + 1, i + Len(ret.content)) = ret.content
        /\ gw.kind = "ok" =>
              ~ret.threw /\ ret.def = gw.hasResponse /\ ret.text = gw.response
        /\ gw.kind \in FailureKinds => ret.threw /\ ret.error = ConnectError

C17_Witness ==
    \/ ret.fn = "generateNotes" /\ ret.threw
    \/ ret.fn = "generateNotes" /\ ret.text = <<"w", "nl">>
                                /\ ret.content = <<"sp", "w">>

(***************************************************************************)
(* Properties of the quiz (SpecQuiz).  A step records a result when        *)
(* showResults becomes true: that step is finishQuiz.                      *)
(***************************************************************************)
\* C18: a result recorded by finishQuiz has one answer record per question
\* of the question set at that time, in the order of the questions, and its
\* totalQuestions is the number of questions.
C18_ResultHasAnswerPerQuestion ==
    [][(~quiz.showResults /\ quiz'.showResults)
          => LET result == quizResults'.items[1]
             IN  /\ Len(quizResults'.items) = Len(quizResults.items) + 1
                 /\ result.totalQuestions = Len(questions.items)
                 /\ Len(result.answers) = Len(questions.items)
                 /\ \A i \in 1..Len(questions.items) :
                       result.answers[i].questionId = questions.items[i].id]_vars

\* C18's case: a result is recorded while a question of the set was never
\* answered (it arrived during the quiz, behind the question shown)
C18_Witness ==
    /\ quiz.showResults
    /\ Len(quizResults.items) > 0
    /\ quizResults.items[1].totalQuestions = 3
    /\ \E i \in 1..3 : quizResults.items[1].answers[i].selectedAnswer = Unanswered

\* C19: in a recorded result each answer record holds the option the user
\* chose for its question, or -1 when the user chose none; its correct flag
\* is true exactly when the chosen option is the question's correctAnswer,
\* so false for a question without an answer; the score is the number of
\* records flagged correct.
C19_AnswersScoredFromCorrectAnswer ==
    [][(~quiz.showResults /\ quiz'.showResults)
          => LET result == quizResults'.items[1]
                 chosen == quiz.selectedAnswers
             IN  /\ \A i \in 1..Len(questions.items) :
                       LET question == questions.items[i]
                           answer == result.answers[i]
                       IN  /\ answer.selectedAnswer =
                                 IF question.id \in DOMAIN chosen
                                 THEN chosen[question.id] ELSE -1
                           /\ answer.correct <=>
                                 /\ question.id \in DOMAIN chosen
                                 /\ "correctAnswer" \in DOMAIN question
                                 /\ chosen[question.id] = question.correctAnswer
                 /\ result.score =
                       Cardinality({i \in 1..Len(result.answers) :
                                       result.answers[i].correct})]_vars

C11_ReloadYieldsSameRecords ==
    [][\A c \in Collections \ {"savedNotes"} :
          (Shown(c) /\ Shown(c)' /\ ~crashed' /\ Mem(c)' # Mem(c))
             => Loaded(ls'[KeyOf(c)]) = Mem(c)']_vars

\* C11, amended: once a change of the collection in memory has been saved,
\* its key holds the records in stored form (every field as it is, except
\* that a creation or completion time is its ISO string) and a fresh load
\* of the key yields exactly those, in the same order; and a mount on a key
\* holding records yields them in order and leaves the key as it was once
\* the mount effects have settled.
C11_ReloadYieldsStoredRecords ==
    [][\A c \in Collections \ {"savedNotes"} :
          /\ (Shown(c) /\ Shown(c)' /\ ~crashed' /\ Mem(c)' # Mem(c))
                => /\ ls'[KeyOf(c)] = Stringify(Mem(c)')
                   /\ Loaded(ls'[KeyOf(c)]) = Stringify(Mem(c)')
                   /\ Len(Loaded(ls'[KeyOf(c)]).items) = Len(Mem(c)'.items)
          /\ (~Shown(c) /\ Shown(c)' /\ ~crashed' /\ ls[KeyOf(c)].t = "array")
                => /\ Mem(c)' = ls[KeyOf(c)]
                   /\ ls'[KeyOf(c)] = ls[KeyOf(c)]]_vars

\* C11's case: questions were generated and a quiz was finished, and after
\* a fresh load both collections hold the records that went through storage
C11_Witness ==
    /\ page = "open" /\ activeTab = "quiz" /\ ~crashed
    /\ Len(questions.items) > 0 /\ questions = ls["mcQuestions"]
    /\ Len(quizResults.items) > 0 /\ quizResults = ls["quizResults"]

(***************************************************************************)
(* Properties of the flashcard parsers (SpecGen).                          *)
(***************************************************************************)
\* C21: generateFlashcards tries its parsers in order: the array found
\* between brackets when there is one and it is valid JSON; otherwise the
\* pairs of lines of the raw completion; and the two placeholder cards only
\* when there are no pairs of lines either.
C21_ParsersTriedInOrder ==
    (ret.fn = "flashcards" /\ gw.kind = "ok" /\ gw.hasResponse) =>
        LET m == MatchBrackets(gw.response)
            p == JSONParse(m.text)
            pairs == Slice(PairLines(SelectNonBlank(Split(gw.response))),
                           FlashcardLimit)
        IN  IF m.ok /\ ~p.threw THEN ret.value = p.val.items
            ELSE IF pairs # <<>> THEN ret.value = pairs
            ELSE ret.value = FallbackFlashcards

\* C22: when a part of the completion from a "[" to a "]" is a valid JSON
\* array of one or more cards, whatever text and brackets stand before or after it,
\* generateFlashcards returns the cards of such a part, in order.
C22_EmbeddedArrayReturned ==
    (ret.fn = "flashcards" /\ gw.kind = "ok" /\ gw.hasResponse) =>
        LET arrays ==
                {JSONParse(SubSeq(gw.response, i, j)).val.items :
                    <<i, j>> \in
                        {x \in (1..Len(gw.response)) \X (1..Len(gw.response)) :
                            /\ x[1] < x[2]
                            /\ gw.response[x[1]] = "["
                            /\ ~JSONParse(SubSeq(gw.response, x[1], x[2])).threw
                            /\ JSONParse(SubSeq(gw.response, x[1], x[2])).val.items # <<>>
                            /\ \A item \in
                                  {JSONParse(SubSeq(gw.response, x[1], x[2])).val.items[k] :
                                      k \in 1..Len(JSONParse(SubSeq(gw.response, x[1], x[2])).val.items)} :
                                  item = CardValue}}
        IN  arrays # {} => ret.value \in arrays

\* C23: for a completion without brackets the result is made of the
\* non-blank lines taken two by two in order: the front is the first line
\* of the pair without its surrounding blanks and without a leading
\* ordinal, the back the second line without its surrounding blanks; a last
\* line without a partner is left out and at most 5 pairs are returned.
C23_LinePairsInOrder ==
    (/\ ret.fn = "flashcards" /\ gw.kind = "ok" /\ gw.hasResponse
     /\ Positions(gw.response, "[") = {} /\ Positions(gw.response, "]") = {})
      => LET lines == SelectNonBlank(Split(gw.response))
             n == Len(lines) \div 2
         IN  /\ Len(ret.value) = IF n < 5 THEN n ELSE 5
             /\ \A k \in 1..Len(ret.value) :
                   /\ ret.value[k].front = Trim(StripOrdinal(Trim(lines[2 * k - 1])))
                   /\ ret.value[k].back = Trim(lines[2 * k])

(***************************************************************************)
(* Properties of a running quiz (SpecQuiz).                                *)
(***************************************************************************)
\* C24: while an attempt is in progress, from startQuiz until it is
\* finished or reset, no step changes the questions, so the question at
\* each index stays the same; a request that was outstanding when the quiz
\* started adds nothing to the attempt.
C24_QuestionsFixedDuringAttempt ==
    [][(quiz.quizStarted /\ ~quiz.showResults /\ quiz'.quizStarted)
          => questions' = questions]_vars

\* C27: while the results of an attempt are on the screen, the score shown
\* there is the score of the result that finishQuiz recorded for it.
C27_ShownScoreIsStoredScore ==
    (page = "open" /\ ~crashed /\ activeTab = "quiz" /\ quiz.showResults)
       => ShownScore(questions.items, quiz) = quizResults.items[1].score

(***************************************************************************)
(* Properties of the notes manager (SpecNotes).                            *)
(***************************************************************************)
\* C25: on the notes tab, a step that takes notes away (a delete) takes
\* exactly one note out of the notes shown and leaves the others as they
\* were and in place, and likewise at most one out of the persisted notes;
\* a step that changes notes without adding or removing any (the save of an
\* edit) changes exactly one note shown and at most one persisted note.
C25_DeleteAndEditTouchOneNote ==
    [][(/\ page = "open" /\ page' = "open"
        /\ activeTab = "notes" /\ activeTab' = "notes"
        /\ ~crashed /\ ~crashed')
        => LET allNotes == generatedNotes \o savedNotes.items
               allAfter == generatedNotes' \o savedNotes'.items
               stored == ls["studyNotes"].items
               storedAfter == ls'["studyNotes"].items
           IN  /\ Len(allAfter) < Len(allNotes)
                    => /\ \E n \in 1..Len(allNotes) : allAfter = RemoveAt(allNotes, n)
                       /\ \/ storedAfter = stored
                          \/ \E n \in 1..Len(stored) : storedAfter = RemoveAt(stored, n)
               /\ (Len(allAfter) = Len(allNotes) /\ allAfter # allNotes)
                    => /\ Cardinality({n \in 1..Len(allNotes) :
                                          allAfter[n] # allNotes[n]}) = 1
                       /\ Len(storedAfter) = Len(stored)
                       /\ Cardinality({n \in 1..Len(stored) :
                                          storedAfter[n] # stored[n]}) <= 1]_vars

(***************************************************************************)
(* Properties of the two to-do lists (SpecTodo).                           *)
(***************************************************************************)
\* C26: an item leaves the persisted to-do collection only when the user
\* removes it: in every step, an item that is under the key 'todos' before
\* and not after was in the list of an instance that dropped it in this
\* step (its trash button or Clear Completed).
C26_PersistedTodoStaysUntilDeleted ==
    [][LET Persisted(l) ==
               IF l["todos"].t = "array" THEN l["todos"].items ELSE <<>>
       IN  \A n \in 1..Len(Persisted(ls)) :
              (\A m \in 1..Len(Persisted(ls')) :
                    Persisted(ls')[m].id # Persisted(ls)[n].id)
                 => \E inst \in {"sidebar", "tab"} :
                       /\ \E k \in 1..Len(todos[inst].items) :
                             todos[inst].items[k].id = Persisted(ls)[n].id
                       /\ Len(todos'[inst].items) < Len(todos[inst].items)
                       /\ \A m \in 1..Len(todos'[inst].items) :
                             todos'[inst].items[m].id # Persisted(ls)[n].id]_vars

(***************************************************************************)
(* Properties of the live preview (SpecPreview).                           *)
(***************************************************************************)
\* C28: in the text-input view, when no timeout is pending and no preview
\* request is outstanding, the preview is empty if the latest text is under
\* 50 characters, and otherwise it is the preview computed from the latest
\* text (unless a preview request failed); the response for an older text
\* is never what is shown.
C28_PreviewIsOfLatestText ==
    (/\ page = "open" /\ ~crashed /\ activeTab = "text"
     /\ preview.timer = 0
     /\ \A r \in preview.requests : ~r.live)
       => IF preview.inputText.long
          THEN \/ preview.previewContent = preview.inputText.v
               \/ "Error generating preview:" \in console
          ELSE preview.previewContent = 0

(***************************************************************************)
(* Properties of the busy flags (SpecBusy).                                *)
(***************************************************************************)
\* C29: on every generation surface the busy flag is set by the step that
\* issues a request; the step in which a request of the surface shown
\* completes clears it, whether the call succeeded or failed; a flag is
\* never set without a request of its surface outstanding; and, the gateway
\* calls completing, a flag that is set is eventually clear again.
C29_BusyFlagSetAndCleared ==
    /\ [][/\ Len(reqs') > Len(reqs)
             => processing'[reqs'[Len(reqs')].surface]
          /\ \A s \in Surfaces :
                (/\ page' = "open" /\ ~crashed'
                 /\ Cardinality({i \in 1..Len(reqs') :
                                    reqs'[i].live /\ reqs'[i].surface = s})
                      < Cardinality({i \in 1..Len(reqs) :
                                        reqs[i].live /\ reqs[i].surface = s}))
                   => ~processing'[s]]_vars
    /\ [](\A s \in Surfaces :
             processing[s] =>
                \E i \in 1..Len(reqs) : reqs[i].live /\ reqs[i].surface = s)
    /\ \A s \in Surfaces : processing[s] ~> ~processing[s]

\* C29's case: a request of the surface shown has failed and its flag is
\* clear again
C29_Witness ==
    /\ page = "open" /\ ~crashed
    /\ done.failed /\ done.surface = activeTab
    /\ ~processing[activeTab]
    /\ reqs = <<>>

(***************************************************************************)
(* Properties of the connection check (SpecModel).                         *)
(***************************************************************************)
\* C30: when a connection check ends having connected and received a list
\* of one or more models, the selected model is one of that list, whatever
\* the user selected while the check was running.
C30_SelectedModelInCheckedList ==
    [][(/\ check.stage = "models"
        /\ check'.stage = "none"
        /\ page' = "open"
        /\ isConnected' = "true"
        /\ Len(availableModels') > 0)
          => InSeq(selectedModel', availableModels')]_vars

=============================================================================
